---- MODULE Spec2Model ----
(***************************************************************************)
(* The streaming conversation controller of src/components/chat.tsx        *)
(* (useChat): the SWR-backed message store, the cancellation slot, and the *)
(* submissions started by append/reload, each a function-call loop around  *)
(* getStreamedResponse.                                                    *)
(*                                                                         *)
(* JavaScript runs one task at a time, so every action below is the code   *)
(* between two suspension points (await fetch, await res.text(), await     *)
(* reader.read(), await functionCallHandler).  Strings are sequences of    *)
(* text tokens: "F" is the text {"function_call": (the marker), "J" is the *)
(* text that completes a well-formed envelope when it directly follows the *)
(* marker, "x" is any other text, "u" is the text a user typed.            *)
(***************************************************************************)
EXTENDS Integers, Sequences, FiniteSets, TLC

\* ---- bounds of the model ------------------------------------------------
MaxSubmissions == 1     \* calls of append or reload in a behaviour of Spec
MaxOverlap == 2         \* calls of append or reload in a behaviour of SpecOverlap
MaxRequests == 2        \* HTTP requests issued, over all submissions
MaxChunks == 2          \* chunks delivered, over all response streams
MaxSetMessages == 1     \* calls of setMessages

VARIABLES
    store,               \* the SWR cache entry `data` for [api, chatId]
    messagesRef,         \* messagesRef.current
    abortControllerRef,  \* abortControllerRef.current: 0 is null, p the controller of submission p
    functionCallHandler, \* whether the functionCallHandler option is configured
    chatIdGiven,         \* whether the Chat component was given an id, which ChatPanel passes on
    sub,                 \* the submissions: locals of the useSWRMutation fetcher, and what its caller saw
    requestsSent,        \* HTTP requests issued so far
    chunksRead,          \* chunks delivered so far
    setCalls             \* how often setMessages was called

vars == <<store, messagesRef, abortControllerRef, functionCallHandler, chatIdGiven,
          sub, requestsSent, chunksRead, setCalls>>

\* the submissions of a behaviour, in the order of their calls
Submissions == 1..MaxOverlap

\* ---- messages -------------------------------------------------------------
NoFunctionCall == [kind |-> "undefined", text |-> <<>>, name |-> "", arguments |-> ""]

\* function_call while the call is streaming: the raw text
StringFunctionCall(text) == [kind |-> "string", text |-> text, name |-> "", arguments |-> ""]

Message(id, role, content, function_call) ==
    [id |-> id, role |-> role, content |-> content, function_call |-> function_call]

\* the conversation identifier ChatPanel passes as the id of each message it appends
ChatId == 0

UserMessage(id) == Message(id, "user", <<"u">>, NoFunctionCall)

\* initialMessages: the sequences a conversation may be constructed with
InitialMessages ==
    { <<>>,
      << Message(-1, "user", <<"u">>, NoFunctionCall) >>,
      << Message(-1, "user", <<"u">>, NoFunctionCall),
         Message(-2, "assistant", <<"x">>, NoFunctionCall) >> }

\* the sequences a caller passes to setMessages
EditedMessages ==
    { <<>>,
      << Message(-3, "user", <<"u">>, NoFunctionCall) >> }

Last(seq) == seq[Len(seq)]

\* Array.prototype.slice(0, -1)
SliceDropLast(seq) == SubSeq(seq, 1, Len(seq) - 1)

\* ---- the stream decoder ---------------------------------------------------
\* the pieces of text a response stream may deliver after `result`: the marker
\* opens the text or is other text, and the text completing the envelope follows
\* the marker directly or is other text
Chunks(result) ==
    IF result = <<>> THEN { <<"F">>, <<"x">> }
    ELSE IF result = <<"F">> THEN { <<"J">>, <<"x">> }
    ELSE { <<"x">> }

\* result.startsWith('{"function_call":')
StartsWithMarker(result) == Len(result) > 0 /\ result[1] = "F"

\* a parser that accepts whatever begins with the marker
IsValidJSONLenient(result) == StartsWithMarker(result)

\* whether JSON.parse(result) returns (otherwise it throws a SyntaxError)
IsValidJSON(result) == result = <<"F", "J">>

\* JSON.parse(result).function_call of a well-formed envelope
ParsedFunctionCall(result) ==
    [kind |-> "object", text |-> <<>>, name |-> "get_current_time", arguments |-> "{}"]

\* an evolving message that shows the raw text as content while a call streams
ResponseMessageShowsText(replyId, result) ==
    IF StartsWithMarker(result)
    THEN Message(replyId, "assistant", result, StringFunctionCall(result))
    ELSE Message(replyId, "assistant", result, NoFunctionCall)

\* the evolving assistant message of lines 361-377
ResponseMessage(replyId, result) ==
    IF StartsWithMarker(result)
    THEN Message(replyId, "assistant", <<>>, StringFunctionCall(result))
    ELSE Message(replyId, "assistant", result, NoFunctionCall)

\* the message of lines 401-407, stored once the stream is complete
ParsedMessage(replyId, result) ==
    Message(replyId, "assistant", <<>>, ParsedFunctionCall(result))

\* ---- a submission's record ------------------------------------------------
NoArgs == [functionCall |-> NoFunctionCall, messages |-> <<>>]

IdleSubmission ==
    [ slot |-> 0,                  \* which submission this is
      pc |-> "idle",               \* idle, fetch, errtext, read, handler, resolved, rejected
      op |-> "none",               \* the call that started it: append or reload
      aborted |-> FALSE,           \* abortController.signal.aborted
      chatRequest |-> <<>>,        \* chatRequest.messages
      previousMessages |-> <<>>,
      body |-> <<>>,               \* the messages in the body of the latest request
      result |-> <<>>,
      replyId |-> 0,
      cycle |-> 0,                 \* the request cycle of the function-call loop
      handlerArgs |-> NoArgs,      \* what functionCallHandler was last called with
      ret |-> "pending",           \* what the caller got: pending, value, null, thrown
      retValue |-> <<>>,
      err |-> "none",              \* the error thrown to the caller
      onError |-> "none",          \* the error the onError option was last called with
      stopStore |-> <<>>,          \* the store when stop() cancelled this submission
      stopped |-> FALSE ]          \* stop() emptied the slot while this submission was in flight

\* ---- the state during one task ---------------------------------------------
\* A context c is the state as one run of code between two suspension points
\* sees and changes it: c.store, c.ref (messagesRef.current), c.acr
\* (abortControllerRef.current), the counters, and c.s, the locals
\* of the running submission.

\* mutate(messages, false): replace the cache entry
Mutate(c, messages) == [c EXCEPT !.store = messages]

\* a hook without the effect: messagesRef keeps the messages it was created with
EffectMissing(c) == c

\* lines 266-268: the effect copies the rendered messages into messagesRef. React
\* renders a store change and runs its effects in the microtask the change
\* queued, which precedes the continuation of any await that follows the change.
Effect(c) == [c EXCEPT !.ref = c.store]

\* nanoid(): a fresh id; the call of submission s at `site` (0 the message of
\* append, 1 the reply, 2 the handler's message) in its current cycle gets an id
\* no other call gets
Nanoid(s, site) == (s.slot * (MaxRequests + 1) + s.cycle) * 3 + site + 1

\* lines 446-450: whether the catch block swallows the error
IsAbortError(name) == name = "AbortError"

\* lines 445-457: the catch block of the fetcher, with an error named `name`
Throw(c, name) ==
    IF IsAbortError(name)
    THEN [c EXCEPT !.acr = 0, !.s.pc = "resolved", !.s.ret = "null"]
    ELSE [c EXCEPT !.s.pc = "rejected", !.s.ret = "thrown", !.s.err = name,
                   !.s.onError = name]

\* a rollback that restores the messages of the request instead of the snapshot
RollbackTargetIsRequest(s) == s.chatRequest

\* lines 301, 323 and 337: what the rollback restores
RollbackTarget(s) == s.previousMessages

\* lines 306-318: the messages a request carries
RequestBody(openAIChatRequest) == openAIChatRequest

\* a request cycle that sends the request without the optimistic update
GetStreamedResponseNoUpdate(c, openAIChatRequest) ==
    LET c1 == [c EXCEPT !.s.previousMessages = c.ref,
                        !.s.chatRequest = openAIChatRequest,
                        !.s.cycle = @ + 1,
                        !.s.result = <<>>]
    IN  IF c.s.aborted
        THEN Throw(Mutate(c1, RollbackTarget(c1.s)), "AbortError")
        ELSE [c1 EXCEPT !.s.pc = "fetch",
                        !.s.body = RequestBody(openAIChatRequest),
                        !.requestsSent = @ + 1]

\* lines 298-325 up to the await of fetch: snapshot, optimistic update, request.
\* fetch with a signal that is already aborted rejects with an AbortError at once.
GetStreamedResponse(c, openAIChatRequest) ==
    LET c1 == [c EXCEPT !.s.previousMessages = c.ref,
                        !.s.chatRequest = openAIChatRequest,
                        !.s.cycle = @ + 1,
                        !.s.result = <<>>]
        c2 == Mutate(c1, openAIChatRequest)
    IN  IF c.s.aborted
        THEN Throw(Mutate(c2, RollbackTarget(c2.s)), "AbortError")
        ELSE [c2 EXCEPT !.s.pc = "fetch",
                        !.s.body = RequestBody(openAIChatRequest),
                        !.requestsSent = @ + 1]

\* a loop test with the comparison inverted: it goes on without a function call
LoopBreaksInverted(latestMessage) ==
    latestMessage.function_call.kind \notin {"undefined", "string"}

\* line 424: the latest message ends the loop
LoopBreaks(latestMessage) ==
    latestMessage.function_call.kind \in {"undefined", "string"}

\* line 428: what the loop does with a structured call
HandlerConfigured == functionCallHandler

\* a handler call that passes the request as it was sent, without the reply
HandlerArgumentsStale(c, latestMessage) ==
    [functionCall |-> latestMessage.function_call, messages |-> c.s.chatRequest]

\* lines 429-436: the arguments of the handler
HandlerArguments(c, latestMessage) ==
    [functionCall |-> latestMessage.function_call, messages |-> c.ref]

\* lines 423-444: the function-call loop after one getStreamedResponse
FunctionCallLoop(c) ==
    IF c.ref = <<>>
    THEN Throw(c, "TypeError")
    ELSE LET latestMessage == Last(c.ref)
         IN  IF LoopBreaks(latestMessage)
             THEN [c EXCEPT !.acr = 0, !.s.pc = "resolved", !.s.ret = "value",
                            !.s.retValue = latestMessage.content]
             ELSE IF HandlerConfigured
                  THEN [c EXCEPT !.s.pc = "handler",
                                 !.s.handlerArgs = HandlerArguments(c, latestMessage)]
                  ELSE GetStreamedResponse(c, c.s.chatRequest)

\* lines 395-418: the end of getStreamedResponse, then back in the loop
StreamEnded(c) ==
    IF StartsWithMarker(c.s.result)
    THEN IF IsValidJSON(c.s.result)
         THEN FunctionCallLoop(Effect(
                  Mutate(c, Append(c.s.chatRequest,
                                   ParsedMessage(c.s.replyId, c.s.result)))))
         ELSE Throw(c, "SyntaxError")
    ELSE FunctionCallLoop(Effect(c))

\* line 389: the check that ends the read loop
SlotCleared(c) == c.acr = 0

\* a read loop that puts each new chunk in front of the accumulated text
ChunkReadPrepends(c, value) ==
    LET result == value \o c.s.result
        c1 == Mutate([c EXCEPT !.s.result = result, !.chunksRead = @ + 1],
                     Append(c.s.chatRequest, ResponseMessage(c.s.replyId, result)))
    IN  IF SlotCleared(c1) THEN StreamEnded(c1) ELSE c1

\* a read loop that keeps only the latest chunk: result = instead of result +=
ChunkReadOverwrites(c, value) ==
    LET result == value
        c1 == Mutate([c EXCEPT !.s.result = result, !.chunksRead = @ + 1],
                     Append(c.s.chatRequest, ResponseMessage(c.s.replyId, result)))
    IN  IF SlotCleared(c1) THEN StreamEnded(c1) ELSE c1

\* lines 359-392: one delivered chunk
ChunkRead(c, value) ==
    LET result == c.s.result \o value
        c1 == Mutate([c EXCEPT !.s.result = result, !.chunksRead = @ + 1],
                     Append(c.s.chatRequest, ResponseMessage(c.s.replyId, result)))
    IN  IF SlotCleared(c1) THEN StreamEnded(c1) ELSE c1

\* the request an external functionCallHandler returns: the messages it was
\* given and a function-role message carrying its result
HandlerEnvelope(args, id) ==
    Append(args.messages, Message(id, "function", <<"r">>, NoFunctionCall))

\* ---- the context of a task of submission p, and its commit --------------
Context(p) ==
    [store |-> store, ref |-> messagesRef, acr |-> abortControllerRef,
     requestsSent |-> requestsSent, chunksRead |-> chunksRead,
     s |-> sub[p]]

\* the fetcher has returned or thrown: its locals are gone, what its caller and
\* the onError option saw remains
Settled(s) ==
    [IdleSubmission EXCEPT !.slot = s.slot, !.pc = s.pc, !.op = s.op, !.ret = s.ret,
                           !.retValue = s.retValue, !.err = s.err, !.onError = s.onError]

Commit(p, c) ==
    /\ c.requestsSent <= MaxRequests
    /\ c.chunksRead <= MaxChunks
    /\ store' = c.store
    /\ messagesRef' = Effect(c).ref
    /\ abortControllerRef' = c.acr
    /\ requestsSent' = c.requestsSent
    /\ chunksRead' = c.chunksRead
    /\ sub' = [sub EXCEPT ![p] = IF c.s.pc \in {"resolved", "rejected"}
                                  THEN Settled(c.s) ELSE c.s]
    /\ UNCHANGED <<functionCallHandler, chatIdGiven, setCalls>>

\* ---- construction ----------------------------------------------------------
Init ==
    /\ store \in InitialMessages
    /\ messagesRef = store
    /\ abortControllerRef = 0
    /\ functionCallHandler \in BOOLEAN
    /\ chatIdGiven \in BOOLEAN
    /\ sub = [p \in Submissions |-> [IdleSubmission EXCEPT !.slot = p]]
    /\ requestsSent = 0
    /\ chunksRead = 0
    /\ setCalls = 0

\* the next submission: slots are used in order
IsNext(p) ==
    /\ sub[p].pc = "idle"
    /\ \A q \in Submissions : q < p => sub[q].pc # "idle"

\* lines 293-297 and 420-422: trigger runs the fetcher at once; it installs a new
\* AbortController in the slot and enters the loop with the initial request
Trigger(p, c, op, initialChatRequest) ==
    Commit(p, GetStreamedResponse([c EXCEPT !.acr = p, !.s.op = op], initialChatRequest))

\* lines 467-472: the request append builds
AppendRequest(messages, message) == messages \o << message >>

\* chat-panel.tsx lines 84-90 and 212-218: the message ChatPanel appends has the
\* id the Chat component was given, or none
PanelMessageHasId == chatIdGiven

\* lines 465-480: append(message), as ChatPanel calls it
AppendMessage(p) ==
    /\ IsNext(p)
    /\ LET c == Context(p)
           id == IF PanelMessageHasId THEN ChatId ELSE Nanoid(c.s, 0)
       IN  Trigger(p, c, "append", AppendRequest(c.ref, UserMessage(id)))

\* a reload that resends the sequence with its last assistant message
ReloadRequestKeepsLast(messages) == messages

\* lines 485-503: the request reload() builds from a non-empty sequence
ReloadRequest(messages) ==
    IF Last(messages).role = "assistant"
    THEN SliceDropLast(messages)
    ELSE messages

\* a reload without the test for an empty sequence: it always sends a request
ReloadAlwaysTriggers(p) ==
    /\ IsNext(p)
    /\ LET c == Context(p)
       IN  Trigger(p, c, "reload",
                   IF Len(c.ref) = 0 THEN c.ref ELSE ReloadRequest(c.ref))

\* lines 482-504: reload(); on an empty sequence it returns null at once
Reload(p) ==
    /\ IsNext(p)
    /\ LET c == Context(p)
       IN  IF Len(c.ref) = 0
           THEN /\ sub' = [sub EXCEPT ![p] = [@ EXCEPT !.pc = "resolved", !.op = "reload",
                                                      !.ret = "null"]]
                /\ UNCHANGED <<store, messagesRef, abortControllerRef,
                               functionCallHandler, chatIdGiven, requestsSent,
                               chunksRead, setCalls>>
           ELSE Trigger(p, c, "reload", ReloadRequest(c.ref))

InFlight(s) == s.pc \in {"fetch", "errtext", "read", "handler"}

\* lines 506-511: stop(); aborting the controller of a fetcher that has thrown
\* reaches nothing
Stop ==
    /\ IF abortControllerRef # 0
       THEN /\ sub' = [p \in Submissions |->
                          IF ~InFlight(sub[p]) THEN sub[p]
                          ELSE IF p = abortControllerRef
                          THEN [sub[p] EXCEPT !.aborted = TRUE, !.stopStore = store,
                                              !.stopped = TRUE]
                          ELSE [sub[p] EXCEPT !.stopped = TRUE]]
            /\ abortControllerRef' = 0
       ELSE UNCHANGED <<sub, abortControllerRef>>
    /\ UNCHANGED <<store, messagesRef, functionCallHandler, chatIdGiven,
                   requestsSent, chunksRead, setCalls>>

\* lines 513-519: setMessages(messages)
SetMessages(messages) ==
    /\ setCalls < MaxSetMessages
    /\ setCalls' = setCalls + 1
    /\ store' = messages
    /\ messagesRef' = messages
    /\ UNCHANGED <<abortControllerRef, functionCallHandler, chatIdGiven, sub,
                   requestsSent, chunksRead>>

\* ---- the HTTP exchange ------------------------------------------------------
\* a catch handler of fetch that rethrows without restoring the store
FetchRejectedNoRollback(c, name) == Throw(c, name)

\* lines 321-325: the catch handler of fetch, with the error fetch rejected with
FetchRejected(c, name) == Throw(Mutate(c, RollbackTarget(c.s)), name)

\* fetch rejects with a network error
FetchFails(p) ==
    /\ sub[p].pc = "fetch"
    /\ ~sub[p].aborted
    /\ Commit(p, FetchRejected(Context(p), "NetworkError"))

\* fetch rejects because its signal was aborted
FetchAborted(p) ==
    /\ sub[p].pc = "fetch"
    /\ sub[p].aborted
    /\ Commit(p, FetchRejected(Context(p), "AbortError"))

\* lines 335-350: what the code does with the response fetch resolved with
Responded(c, ok, hasBody) ==
    IF ~ok
    THEN [Mutate(c, RollbackTarget(c.s)) EXCEPT !.s.pc = "errtext"]
    ELSE IF ~hasBody
         THEN Throw(c, "EmptyBody")
         ELSE [c EXCEPT !.s.pc = "read", !.s.result = <<>>,
                        !.s.replyId = Nanoid(c.s, 1)]

FetchResponds(p, ok, hasBody) ==
    /\ sub[p].pc = "fetch"
    /\ ~sub[p].aborted
    /\ Commit(p, Responded(Context(p), ok, hasBody))

\* lines 338-340: res.text() resolves and the error is thrown
ErrorTextRead(p) ==
    /\ sub[p].pc = "errtext"
    /\ ~sub[p].aborted
    /\ Commit(p, Throw(Context(p), "BadStatus"))

\* lines 338-340: res.text() rejects because the signal was aborted
ErrorTextAborted(p) ==
    /\ sub[p].pc = "errtext"
    /\ sub[p].aborted
    /\ Commit(p, Throw(Context(p), "AbortError"))

\* ---- the response stream ------------------------------------------------------
\* lines 353-393: reader.read() delivers a chunk; a transport that has not yet
\* abandoned the read after stop() still delivers
ReadChunk(p, value) ==
    /\ sub[p].pc = "read"
    /\ value \in Chunks(sub[p].result)
    /\ Commit(p, ChunkRead(Context(p), value))

\* lines 354-357, 395-418: reader.read() reports the end of the stream
ReadDone(p) ==
    /\ sub[p].pc = "read"
    /\ Commit(p, StreamEnded(Context(p)))

\* line 354: reader.read() rejects because the signal was aborted
ReadAborted(p) ==
    /\ sub[p].pc = "read"
    /\ sub[p].aborted
    /\ Commit(p, Throw(Context(p), "AbortError"))

\* ---- the function handler ---------------------------------------------------
\* lines 433-437, then 422: the handler returns the next request
HandlerReturns(p) ==
    /\ sub[p].pc = "handler"
    /\ LET c == Context(p)
       IN  Commit(p, GetStreamedResponse(c, HandlerEnvelope(c.s.handlerArgs,
                                                            Nanoid(c.s, 2))))

\* a failure of the handler that restores the snapshot of the request cycle
HandlerThrowsRollsBack(p) ==
    /\ sub[p].pc = "handler"
    /\ LET c == Context(p)
       IN  Commit(p, Throw(Mutate(c, RollbackTarget(c.s)), "HandlerError"))

\* line 433: the handler throws
HandlerThrows(p) ==
    /\ sub[p].pc = "handler"
    /\ Commit(p, Throw(Context(p), "HandlerError"))

\* the operations of one submission's tasks
Step(p) ==
    \/ FetchFails(p)
    \/ FetchAborted(p)
    \/ \E ok \in BOOLEAN, hasBody \in BOOLEAN : FetchResponds(p, ok, hasBody)
    \/ ErrorTextRead(p)
    \/ ErrorTextAborted(p)
    \/ \E value \in {<<"F">>, <<"J">>, <<"x">>} : ReadChunk(p, value)
    \/ ReadDone(p)
    \/ ReadAborted(p)
    \/ HandlerReturns(p)
    \/ HandlerThrows(p)

\* the conversation as the Chat component drives it: ChatPanel calls append,
\* reload and stop
Next ==
    \/ \E p \in 1..MaxSubmissions : AppendMessage(p)
    \/ \E p \in 1..MaxSubmissions : Reload(p)
    \/ Stop
    \/ \E p \in Submissions : Step(p)

Spec == Init /\ [][Next]_vars

\* the same conversation with a caller that starts a submission while another
\* is in flight
NextOverlap ==
    \/ \E p \in Submissions : AppendMessage(p)
    \/ \E p \in Submissions : Reload(p)
    \/ Stop
    \/ \E p \in Submissions : Step(p)

SpecOverlap == Init /\ [][NextOverlap]_vars

\* the conversation driven by a caller that also edits it with setMessages
NextEdited ==
    \/ NextOverlap
    \/ \E messages \in EditedMessages : SetMessages(messages)

SpecEdited == Init /\ [][NextEdited]_vars

\* ---- the claims ---------------------------------------------------------------
Finished(s) == s.pc \in {"resolved", "rejected"}

\* submission p is started by this step
Starts(p) == sub[p].pc = "idle" /\ sub'[p].pc # "idle"

\* the response stream of p is read to its end by this step: reader.read()
\* reports done (it neither delivers a chunk nor rejects)
ReadsToEnd(p) ==
    /\ sub[p].pc = "read"
    /\ sub'[p].pc # "read"
    /\ chunksRead' = chunksRead
    /\ sub'[p].ret # "null"

C2_AsStated ==
    [][\A p \in Submissions :
          (sub[p].pc = "read" /\ sub[p].aborted /\ Finished(sub'[p]))
          => (sub'[p].ret # "thrown" /\ sub'[p].onError = "none")]_vars

\* C3 as stated: once stop() has cancelled a submission, a chunk delivered to it
\* afterwards does not change the store.
C3_AsStated ==
    [][\A p \in Submissions :
          (sub[p].pc = "read" /\ sub[p].aborted /\ sub'[p] # sub[p]
             /\ chunksRead' = chunksRead + 1)
          => store' = store]_vars

\* C4 as stated: at most one submission of the conversation is in flight.
C4_AsStated ==
    Cardinality({p \in Submissions : InFlight(sub[p])}) <= 1

\* C5 as stated: with no handler configured, when a response stream ends with a
\* structured function call no further HTTP request is issued, the submission
\* resolves, and the last stored message is the assistant message with the call.
C5_AsStated ==
    [][\A p \in Submissions :
          (~functionCallHandler /\ ReadsToEnd(p) /\ IsValidJSON(sub[p].result))
          => /\ requestsSent' = requestsSent
             /\ sub'[p].pc = "resolved"
             /\ store' # <<>>
             /\ Last(store') = ParsedMessage(sub[p].replyId, sub[p].result)]_vars

\* C6: with a handler configured, when a response stream ends with a structured
\* function call the handler is called, once, with the structured {name, arguments}
\* value and the latest stored sequence, which ends with the message carrying the
\* call; while the handler is awaited it is not called again; and when it returns,
\* the next HTTP request carries the messages of the envelope it returned.
C6_HandlerRoundTrip ==
    [][\A p \in Submissions :
          /\ (functionCallHandler /\ ReadsToEnd(p) /\ IsValidJSON(sub[p].result))
                => /\ sub'[p].pc = "handler"
                   /\ sub'[p].handlerArgs.functionCall
                         = [kind |-> "object", text |-> <<>>,
                            name |-> "get_current_time", arguments |-> "{}"]
                   /\ sub'[p].handlerArgs.messages = store'
                   /\ Last(store').function_call = sub'[p].handlerArgs.functionCall
                   /\ Last(store').id = sub[p].replyId
                   /\ requestsSent' = requestsSent
          /\ (sub[p].pc = "handler" /\ sub'[p].pc = "handler")
                => sub'[p].handlerArgs = sub[p].handlerArgs
          /\ (sub[p].pc = "handler" /\ sub'[p].pc = "fetch")
                => /\ requestsSent' = requestsSent + 1
                   /\ sub'[p].body =
                         Append(sub[p].handlerArgs.messages,
                                Message(Nanoid(sub[p], 2), "function", <<"r">>,
                                        NoFunctionCall))]_vars

\* C6's case: the handler has returned and the request built from its envelope is
\* in flight
C6_Witness ==
    \E p \in Submissions :
        /\ sub[p].pc = "fetch"
        /\ sub[p].cycle = 2
        /\ Last(sub[p].body).role = "function"
        /\ sub[p].handlerArgs.functionCall.kind = "object"

\* C7: the snapshot is the sequence stored when the submission is started; when
\* fetch rejects with a network error the store is replaced by the snapshot, onError
\* is given that error, and the same error is thrown to the caller.
C7_NetworkFailure ==
    [][\A p \in Submissions :
          /\ (Starts(p) /\ sub'[p].pc = "fetch")
                => sub'[p].previousMessages = store
          /\ (sub[p].pc = "fetch" /\ ~sub[p].aborted /\ sub'[p].pc = "rejected"
                /\ sub'[p].err # "EmptyBody")
                => /\ store' = sub[p].previousMessages
                   /\ sub'[p].err = "NetworkError"
                   /\ sub'[p].onError = "NetworkError"
                   /\ sub'[p].ret = "thrown"]_vars

\* C7's case: a submission has failed on a network error and the appended
\* message is gone from the store
C7_Witness ==
    \E p \in Submissions :
        /\ sub[p].op = "append"
        /\ sub[p].pc = "rejected"
        /\ sub[p].err = "NetworkError"
        /\ sub[p].onError = "NetworkError"
        /\ store \in InitialMessages

\* C8 as stated: when the response has a success status and no body, the store is
\* rolled back to the snapshot before the error is surfaced.
C8_AsStated ==
    [][\A p \in Submissions :
          (sub[p].pc = "fetch" /\ sub'[p].pc = "rejected" /\ sub'[p].err = "EmptyBody")
          => store' = sub[p].previousMessages]_vars

\* C9 as stated: when a submission that stop() cancelled ends, the store is what
\* it was at the moment of the cancellation.
C9_AsStated ==
    [][\A p \in Submissions :
          (sub[p].aborted /\ InFlight(sub[p]) /\ Finished(sub'[p]))
          => store' = sub[p].stopStore]_vars

\* C10: reload() on a stored sequence that ends in an assistant message sends the
\* sequence without that last message; on a sequence that ends in a message of
\* another role it sends the sequence unchanged.
C10_ReloadRequest ==
    [][\A p \in Submissions :
          (Starts(p) /\ sub'[p].op = "reload" /\ store # <<>>)
          => /\ sub'[p].pc = "fetch"
             /\ requestsSent' = requestsSent + 1
             /\ sub'[p].body = IF store[Len(store)].role = "assistant"
                               THEN SubSeq(store, 1, Len(store) - 1)
                               ELSE store]_vars

\* C10's case: a reload of a sequence that ended in an assistant message is in
\* flight, its request one message shorter than the sequence
C10_Witness ==
    \E p \in Submissions :
        /\ sub[p].op = "reload"
        /\ sub[p].pc = "fetch"
        /\ sub[p].cycle = 1
        /\ Len(sub[p].body) + 1 = Len(sub[p].previousMessages)
        /\ Last(sub[p].previousMessages).role = "assistant"

\* no submission but p has been started
Alone(p) == \A q \in Submissions : q # p => sub[q].pc = "idle"

\* C11 as stated: when a plain response, delivered as any sequence of chunks, has
\* been read to its end without cancellation, the store holds the messages of the
\* request followed by one assistant message whose content is the concatenation
\* of the chunks.
C11_AsStated ==
    [][\A p \in Submissions :
          (ReadsToEnd(p) /\ Alone(p) /\ ~sub[p].aborted
             /\ ~StartsWithMarker(sub[p].result))
          => store' = Append(sub[p].chatRequest,
                             Message(sub[p].replyId, "assistant", sub[p].result,
                                     NoFunctionCall))]_vars

\* C11 as amended: for a plain response delivered as one or more chunks, each
\* chunk extends the accumulated text by that chunk and stores the messages of the
\* request followed by one assistant message with the accumulated text, always
\* under the id chosen when the response arrived; for a submission running alone
\* the end of the stream leaves the store as the last chunk left it and the
\* submission resolves with the accumulated text.  A stream that ends without any chunk stores no
\* assistant message.
C11_Accumulation ==
    /\ [](\A p \in Submissions :
            (sub[p].pc = "read" /\ Alone(p) /\ sub[p].result # <<>>
               /\ ~StartsWithMarker(sub[p].result))
            => store = Append(sub[p].chatRequest,
                              Message(sub[p].replyId, "assistant", sub[p].result,
                                      NoFunctionCall)))
    /\ [][\A p \in Submissions :
            /\ (sub[p].pc = "read" /\ sub'[p].pc = "read")
                  => /\ sub'[p].replyId = sub[p].replyId
                     /\ sub'[p].chatRequest = sub[p].chatRequest
                     /\ \/ sub'[p].result = sub[p].result
                        \/ /\ chunksRead' = chunksRead + 1
                           /\ Len(sub'[p].result) = Len(sub[p].result) + 1
                           /\ SubSeq(sub'[p].result, 1, Len(sub[p].result))
                                 = sub[p].result
                           /\ store' = Append(sub[p].chatRequest,
                                              ResponseMessage(sub[p].replyId,
                                                              sub'[p].result))
            /\ (ReadsToEnd(p) /\ Alone(p) /\ ~sub[p].aborted
                   /\ sub[p].result # <<>> /\ ~StartsWithMarker(sub[p].result))
                  => /\ store' = store
                     /\ sub'[p].ret = "value"
                     /\ sub'[p].retValue = sub[p].result
            /\ (ReadsToEnd(p) /\ Alone(p) /\ sub[p].result = <<>>)
                  => store' = sub[p].chatRequest]_vars

\* C11's case: a plain response of two chunks has been read to its end
C11_Witness ==
    \E p \in Submissions :
        /\ sub[p].pc = "resolved"
        /\ sub[p].retValue = <<"x", "x">>
        /\ store # <<>>
        /\ Last(store).role = "assistant"
        /\ Last(store).content = <<"x", "x">>

\* C12 as stated: in every reachable state no two messages of the stored sequence
\* share an id.
C12_AsStated ==
    \A i, j \in 1..Len(store) : i # j => store[i].id # store[j].id

\* C13: while a response whose text begins with the function-call marker is
\* streaming, each chunk stores the messages of the request followed by an
\* assistant message with empty content whose function_call is the raw accumulated
\* text, and no stored message of that response carries a structured call; when
\* the stream has ended with a well-formed envelope, the text is parsed and the
\* message is replaced by one with empty content and a structured
\* {name, arguments} function_call (seen in the store when a handler is awaited).
C13_PendingThenParsed ==
    /\ [](\A p \in Submissions :
            sub[p].pc = "read"
            => \A i \in 1..Len(store) :
                  store[i].id = sub[p].replyId
                  => store[i].function_call.kind # "object")
    /\ [][\A p \in Submissions :
            /\ (sub[p].pc = "read" /\ sub'[p].pc = "read"
                   /\ sub'[p].result # sub[p].result
                   /\ StartsWithMarker(sub'[p].result))
                  => store' = Append(sub[p].chatRequest,
                                     [id |-> sub[p].replyId, role |-> "assistant",
                                      content |-> <<>>,
                                      function_call |->
                                          [kind |-> "string",
                                           text |-> sub'[p].result,
                                           name |-> "", arguments |-> ""]])
            /\ (ReadsToEnd(p) /\ IsValidJSON(sub[p].result) /\ functionCallHandler)
                  => store' = Append(sub[p].chatRequest,
                                     [id |-> sub[p].replyId, role |-> "assistant",
                                      content |-> <<>>,
                                      function_call |->
                                          [kind |-> "object", text |-> <<>>,
                                           name |-> "get_current_time",
                                           arguments |-> "{}"]])]_vars

\* C13's case: a streamed function call has been parsed and stored, and the
\* handler is awaited
C13_Witness ==
    \E p \in Submissions :
        /\ sub[p].pc = "handler"
        /\ store # <<>>
        /\ Last(store).id = sub[p].replyId
        /\ Last(store).content = <<>>
        /\ Last(store).function_call.kind = "object"

\* C14: when a stream read to its end has yielded text that begins with the
\* function-call marker and is not a well-formed envelope, the submission fails
\* with the parse error, which is thrown to the caller; the handler is not called,
\* no HTTP request is issued, the store is left as it was, and the failed
\* submission does nothing more.
C14_MalformedEnvelope ==
    [][\A p \in Submissions :
          /\ (ReadsToEnd(p) /\ StartsWithMarker(sub[p].result)
                 /\ sub[p].result # <<"F", "J">>)
                => /\ sub'[p].pc = "rejected"
                   /\ sub'[p].ret = "thrown"
                   /\ sub'[p].err = "SyntaxError"
                   /\ sub'[p].handlerArgs.functionCall.kind # "object"
                   /\ requestsSent' = requestsSent
                   /\ store' = store
          /\ sub[p].pc = "rejected" => sub'[p] = sub[p]]_vars

\* C14's case: a submission that was never cancelled has failed on a malformed
\* envelope, which is still the last stored message
C14_Witness ==
    \E p \in Submissions :
        /\ sub[p].pc = "rejected"
        /\ sub[p].err = "SyntaxError"
        /\ abortControllerRef = p
        /\ store # <<>>
        /\ Last(store).function_call.kind = "string"

\* C15: when the function handler throws, the submission fails with that error,
\* which is thrown to the caller, and the store is left as it was: a submission
\* running alone leaves the sequence of its last completed request cycle, which
\* ends with the structured function-call message, not the snapshot taken before
\* the request.
C15_HandlerFailure ==
    /\ [](\A p \in Submissions :
            (sub[p].pc = "handler" /\ Alone(p))
            => /\ store = Append(sub[p].chatRequest,
                                 [id |-> sub[p].replyId, role |-> "assistant",
                                  content |-> <<>>,
                                  function_call |->
                                      [kind |-> "object", text |-> <<>>,
                                       name |-> "get_current_time",
                                       arguments |-> "{}"]])
               /\ store # sub[p].previousMessages)
    /\ [][\A p \in Submissions :
            (sub[p].pc = "handler" /\ sub'[p].pc = "rejected")
            => /\ sub'[p].ret = "thrown"
               /\ sub'[p].err = "HandlerError"
               /\ store' = store]_vars

\* C15's case: the handler has thrown and the structured function-call message is
\* still the last stored message
C15_Witness ==
    \E p \in Submissions :
        /\ sub[p].pc = "rejected"
        /\ sub[p].err = "HandlerError"
        /\ store # <<>>
        /\ Last(store).function_call.kind = "object"

\* C16 as stated: stop() called while no submission is in flight changes neither
\* the store nor the cancellation slot, and stop() called when the slot is already
\* empty changes nothing.
C16_AsStated ==
    [][/\ (Stop /\ \A p \in Submissions : ~InFlight(sub[p]))
            => (store' = store /\ abortControllerRef' = abortControllerRef)
       /\ (Stop /\ abortControllerRef = 0) => UNCHANGED vars]_vars

\* the text an assistant message shows: the raw function call while one streams,
\* the content otherwise
StreamedText(message) ==
    IF message.function_call.kind = "string"
    THEN message.function_call.text
    ELSE message.content

\* C17: within one request cycle the store replaces follow the order in which the
\* chunks arrive: the replace of the k-th chunk stores the messages of the request
\* followed by one assistant message whose text is the text of the first k - 1
\* chunks with the k-th chunk at its end, and for a submission running alone the
\* store always shows the text up to the latest chunk.
C17_ChunkOrder ==
    /\ [](\A p \in Submissions :
            (sub[p].pc = "read" /\ Alone(p) /\ sub[p].result # <<>>)
            => /\ Len(store) = Len(sub[p].chatRequest) + 1
               /\ StreamedText(Last(store)) = sub[p].result)
    /\ [][\A p \in Submissions :
            (sub[p].pc = "read" /\ sub'[p].pc = "read" /\ sub'[p] # sub[p]
               /\ chunksRead' = chunksRead + 1)
            => \E value \in {<<"F">>, <<"J">>, <<"x">>} :
                  /\ sub'[p].result = sub[p].result \o value
                  /\ Len(store') = Len(sub[p].chatRequest) + 1
                  /\ SubSeq(store', 1, Len(sub[p].chatRequest)) = sub[p].chatRequest
                  /\ Last(store').role = "assistant"
                  /\ StreamedText(Last(store')) = sub[p].result \o value]_vars

\* C17's case: two different chunks have been stored in the order they arrived
C17_Witness ==
    \E p \in Submissions :
        /\ sub[p].pc = "read"
        /\ sub[p].result = <<"F", "x">>
        /\ store # <<>>
        /\ StreamedText(Last(store)) = <<"F", "x">>

\* C18: every request cycle starts by replacing the store with exactly the
\* messages of its request, in the step that issues the HTTP request, which
\* carries those messages; for a submission running alone the store equals the
\* messages of the request for as long as the exchange is pending and until the
\* first chunk is processed.
C18_OptimisticUpdate ==
    /\ [](\A p \in Submissions :
            (Alone(p) /\ (sub[p].pc = "fetch"
                            \/ (sub[p].pc = "read" /\ sub[p].result = <<>>)))
            => store = sub[p].chatRequest)
    /\ [][\A p \in Submissions :
            (sub'[p].pc = "fetch" /\ sub'[p].cycle = sub[p].cycle + 1)
            => /\ requestsSent' = requestsSent + 1
               /\ store' = sub'[p].chatRequest
               /\ sub'[p].body = sub'[p].chatRequest]_vars

\* C18's case: the second request cycle of a submission is pending and the store
\* holds the messages of its request, which differ from the snapshot
C18_Witness ==
    \E p \in Submissions :
        /\ sub[p].pc = "fetch"
        /\ sub[p].cycle = 2
        /\ store = sub[p].chatRequest
        /\ store # sub[p].previousMessages

\* C19: the function-call loop is done exactly when a request cycle ends with a
\* last message that has no structured function call: when a response has been
\* read to its end as plain content and the last stored message carries no
\* structured call, the handler is not called, no HTTP request is issued, the
\* cancellation slot is cleared and the submission resolves with the content of
\* the last stored message (for a submission running alone, the text of the
\* response); and a submission never resolves with a value while the last stored
\* message carries a structured call.
C19_LoopDone ==
    [][\A p \in Submissions :
          /\ (ReadsToEnd(p) /\ ~StartsWithMarker(sub[p].result)
                 /\ store # <<>> /\ Last(store).function_call.kind # "object")
                => /\ sub'[p].pc = "resolved"
                   /\ sub'[p].ret = "value"
                   /\ sub'[p].retValue = Last(store).content
                   /\ (Alone(p) /\ sub[p].result # <<>>)
                         => sub'[p].retValue = sub[p].result
                   /\ sub'[p].handlerArgs.functionCall.kind # "object"
                   /\ requestsSent' = requestsSent
                   /\ abortControllerRef' = 0
                   /\ store' = store
          /\ (sub[p].pc # "resolved" /\ sub'[p].pc = "resolved"
                 /\ sub'[p].ret = "value")
                => /\ store' # <<>>
                   /\ Last(store').function_call.kind # "object"
                   /\ sub'[p].retValue = Last(store').content]_vars

\* C19's case: a submission has resolved with the text of a plain response after a
\* single request
C19_Witness ==
    \E p \in Submissions :
        /\ sub[p].pc = "resolved"
        /\ sub[p].ret = "value"
        /\ sub[p].retValue = <<"x">>
        /\ requestsSent = 1
        /\ abortControllerRef = 0
        /\ store # <<>>
        /\ Last(store).content = <<"x">>

C21_AsStated ==
    (\A p \in Submissions : ~InFlight(sub[p])) => abortControllerRef = 0

\* C22 as stated: a submission that stop() has cancelled does not call the
\* function handler afterwards.
C22_AsStated ==
    [][\A p \in Submissions :
          (sub[p].aborted /\ sub[p].pc # "handler") => sub'[p].pc # "handler"]_vars

\* C23 as stated: a submission leaves its read loop at a delivered chunk only if
\* stop() was called while it was in flight; the completion of another submission
\* never makes it abandon its stream.
C23_AsStated ==
    [][\A p \in Submissions :
          (sub[p].pc = "read" /\ sub'[p].pc # "read" /\ chunksRead' = chunksRead + 1)
          => sub[p].stopped]_vars

\* the store holds the messages of s's current envelope, alone or followed by
\* exactly one assistant message
EnvelopeOrReply(s, messages) ==
    \/ messages = s.chatRequest
    \/ /\ Len(messages) = Len(s.chatRequest) + 1
       /\ SliceDropLast(messages) = s.chatRequest
       /\ Last(messages).role = "assistant"

\* C24 as stated: while a single submission is in flight, the store is the
\* sequence S the submission started from (one of the initial sequences), the
\* messages of the current request cycle's envelope, or those messages followed
\* by exactly one assistant message.
C24_AsStated ==
    \A p \in Submissions :
        (Alone(p) /\ InFlight(sub[p]))
        => (store \in InitialMessages \/ EnvelopeOrReply(sub[p], store))

\* C25: reload() on an empty stored sequence returns null at once: it sends no
\* request and leaves the store, messagesRef and the cancellation slot as they
\* were.
C25_ReloadOnEmpty ==
    [][\A p \in Submissions :
          (Starts(p) /\ sub'[p].op = "reload" /\ store = <<>>)
          => /\ sub'[p].pc = "resolved"
             /\ sub'[p].ret = "null"
             /\ requestsSent' = requestsSent
             /\ store' = store
             /\ messagesRef' = messagesRef
             /\ abortControllerRef' = abortControllerRef]_vars

\* reload() was called on an empty sequence and has returned null
C25_Witness ==
    \E p \in Submissions :
        /\ sub[p].op = "reload"
        /\ sub[p].pc = "resolved"
        /\ sub[p].ret = "null"
        /\ store = <<>>
        /\ requestsSent = 0

====
